---- MODULE Spec2Model ----
(***************************************************************************)
(* Model of Session5_DesignYourOwnTrigger.ipynb: the event selection       *)
(* analyse_events (one pass over a tree of events that fills a dictionary  *)
(* of histograms and counts the events passing the MET cut) and the cells  *)
(* that turn the passed counts into yields, a significance and a verdict.  *)
(*                                                                         *)
(* Numbers.  Momenta are integers in MeV, whole multiples of 1000, of      *)
(* magnitude at most 10^7.  Azimuthal angles are half turns h, standing    *)
(* for the float h*math.pi with h in {-1, 0, 1}: there math.cos is exactly *)
(* 1.0 or -1.0, so every x component is an exact integer, while math.sin   *)
(* is 0.0 at h = 0 and +-1.2246467991473532e-16, not 0, at h = +-1, so a   *)
(* y component is a multiple of that number and is kept as the multiple.   *)
(* Other angles (a quarter turn, where math.cos is 6.1e-17) make the       *)
(* double arithmetic round and are outside the model.  The effective MET   *)
(* sqrt(x^2+y^2)*GeV is kept as the whole part of its square in GeV^2:     *)
(* comparing it with an integer threshold or bin edge is comparing         *)
(* squares.  Pseudorapidities are integers in hundredths.  Python floats   *)
(* that are ratios of event counts are exact fractions [n |-> , d |-> ].   *)
(***************************************************************************)
EXTENDS Integers, Sequences, FiniteSets, TLC

VARIABLES
    tree,          \* the events of the tree handed to analyse_events
    hist_list,     \* the dictionary name -> histogram handed to analyse_events
    max_events,    \* the cap argument of analyse_events
    pc,            \* position in analyse_events: idle, call, loop, return, done, error
    evt_cnt,       \* analyse_events' local evt_cnt
    passed_cnt,    \* analyse_events' local passed_cnt
    ret,           \* the value analyse_events returned, or Undef
    cell,          \* the notebook cell about to run
    raised,        \* per cell: "notrun", "none", or the exception that ended it
    signal_tree,   \* the events of the signal file's tree
    bg_tree,       \* the events of the background file's tree
    XSection,      \* the XSection branch of the signal tree
    signal_hist_list,      \* notebook global signal_hist_list
    bg_hist_list,          \* notebook global bg_hist_list
    passed_signal_events,  \* notebook global (a fraction)
    passed_bg_events,      \* notebook global (a fraction)
    total_evts,    \* notebook global total_evts
    max_evts,      \* notebook global max_evts
    scale_factor,  \* notebook global scale_factor (a fraction)
    xsection,      \* notebook global xsection (a fraction)
    signal,        \* notebook global signal (a fraction)
    background,    \* notebook global background (a fraction)
    reduction,     \* notebook global reduction (a fraction)
    out,           \* what the final results cell produced
    prev           \* history: <<the previous call on hist_list and what it left>>

passVars == <<tree, hist_list, max_events, pc, evt_cnt, passed_cnt, ret>>
nbVars == <<cell, raised, signal_tree, bg_tree, XSection, signal_hist_list,
            bg_hist_list, passed_signal_events, passed_bg_events,
            total_evts, max_evts, scale_factor, xsection, signal,
            background, reduction, out>>
outerVars == <<nbVars, prev>>
vars == <<passVars, nbVars, prev>>

Undef == "undef"
\* A fraction-valued global that no cell has assigned yet.
Unassigned == [n |-> 0, d |-> 0]
Assigned(x) == x.d # 0
NotRun == [signal |-> "notrun", background |-> "notrun", final |-> "notrun"]

\* ---------------------------------------------------------------- bounds
MaxEvents == 2

\* ------------------------------------------------------------- constants
bin_width == 5
h_pt_min == 0
h_pt_max == 450
pt_bins == (h_pt_max - h_pt_min) \div bin_width
met_thresh == 200
fb_inverse == 1000
background_scale == 18
reference_events == 51336
lumi_factor == 30
afford_num == 14
afford_den == 100
DefaultMaxEvents == -1
MeVPerGeV == 1000

\* ------------------------------------------------------------ histograms
NoBins == [b \in {} |-> 0]

\* ROOT.TH1F(name, title, nbins, xmin, xmax): an empty histogram.
TH1F(nbins, xmin, xmax) ==
    [nbins |-> nbins, xmin |-> xmin, xmax |-> xmax,
     entries |-> 0, bins |-> NoBins, labels |-> <<>>]

get_histograms ==
    [name \in {"met_et", "jet_n", "jet0_pt", "jet1_pt", "jet0_eta", "jet1_eta",
               "jet_dphi", "jet_deta", "dijet_m", "cutflow"} |->
       CASE name = "met_et"   -> TH1F(pt_bins, h_pt_min, h_pt_max)
         [] name = "jet_n"    -> TH1F(10, 0, 10)
         [] name = "jet0_pt"  -> TH1F(pt_bins, h_pt_min, h_pt_max)
         [] name = "jet1_pt"  -> TH1F(pt_bins, h_pt_min, h_pt_max)
         [] name = "jet0_eta" -> TH1F(100, -5, 5)
         [] name = "jet1_eta" -> TH1F(100, -5, 5)
         [] name = "jet_dphi" -> TH1F(80, -4, 4)
         [] name = "jet_deta" -> TH1F(80, 0, 8)
         [] name = "dijet_m"  -> TH1F(pt_bins * 2, h_pt_min, h_pt_max * 2)
         [] name = "cutflow"  -> TH1F(10, 0, 10)]

\* Reset that clears nothing.
Reset_KeepsContents(h) == h

\* hist.Reset(): contents and entry count are cleared; the axis, and the bin
\* labels already given to it, stay.
Reset(h) == [h EXCEPT !.entries = 0, !.bins = NoBins]

AddBinContent(bins, b) ==
    IF b \in DOMAIN bins
    THEN [bins EXCEPT ![b] = @ + 1]
    ELSE [x \in DOMAIN bins \cup {b} |-> IF x = b THEN 1 ELSE bins[x]]

\* TAxis::FindBin(x) for the value x/per, x and per integers: 0 is underflow,
\* nbins+1 overflow.
FindBin(h, x, per) ==
    IF x < h.xmin * per THEN 0
    ELSE IF x >= h.xmax * per THEN h.nbins + 1
    ELSE 1 + (h.nbins * (x - h.xmin * per)) \div ((h.xmax - h.xmin) * per)

\* TAxis::FindBin for a non-negative value given by its square x2, on an axis
\* with xmin >= 0: the bin k whose edges lo <= sqrt(x2) < hi.
FindBinSq(h, x2) ==
    IF x2 >= h.xmax * h.xmax THEN h.nbins + 1
    ELSE IF x2 < h.xmin * h.xmin THEN 0
    ELSE CHOOSE k \in 1..h.nbins :
           LET w == h.xmax - h.xmin
               lo == h.nbins * h.xmin + (k - 1) * w
               hi == h.nbins * h.xmin + k * w
           IN  /\ lo * lo <= x2 * h.nbins * h.nbins
               /\ x2 * h.nbins * h.nbins < hi * hi

\* TH1::Fill: one more entry, one more count in the bin.
FillBin(h, b) == [h EXCEPT !.entries = @ + 1, !.bins = AddBinContent(@, b)]

Position(s, x) == CHOOSE i \in 1..Len(s) : s[i] = x

\* TH1::Fill(label, 1): the bin of the label, which takes the next free bin
\* of the axis when the axis does not have it yet.
FillLabel(h, label) ==
    IF \E i \in 1..Len(h.labels) : h.labels[i] = label
    THEN FillBin(h, Position(h.labels, label))
    ELSE FillBin([h EXCEPT !.labels = Append(@, label)], Len(h.labels) + 1)

Entries(h) == h.entries
BinContent(h, b) == IF b \in DOMAIN h.bins THEN h.bins[b] ELSE 0
LabelContent(h, label) ==
    IF \E i \in 1..Len(h.labels) : h.labels[i] = label
    THEN BinContent(h, Position(h.labels, label))
    ELSE 0

\* ---------------------------------------------------------------- events
\* An angle h stands for the float h*math.pi.
\* math.cos(h*math.pi): exactly 1.0 at h = 0 and -1.0 at h = 1 and h = -1.
\* No other angle has a value here.
Cos(h) == CASE h = 0 -> 1 [] h = 1 -> -1 [] h = -1 -> -1

\* math.sin(h*math.pi) as a multiple of math.sin(math.pi), which is
\* 1.2246467991473532e-16: the multiple 0 is the float 0.0, the multiple 1
\* is 1.2246467991473532e-16 and -1 is -1.2246467991473532e-16.
Sin(h) == CASE h = 0 -> 0 [] h = 1 -> 1 [] h = -1 -> -1

\* pseudorapidities are in hundredths
EtaPerUnit == 100

Leptons == {<<>>, <<[pt |-> 100000, phi |-> 1]>>}
MetValues == {150000, 200000, 300000}
LeadingJet == [pt |-> 120000, eta |-> 205, phi |-> 0, E |-> 500000]
SecondJet == [pt |-> 60000, eta |-> -305, phi |-> 1, E |-> 700000]
Jets == {<<>>, <<LeadingJet>>, <<LeadingJet, SecondJet>>}

\* One entry of the tree: the branches analyse_events reads.
Event(leps, met, jets) ==
    [lep_n |-> Len(leps),
     lep_pt |-> [i \in 1..Len(leps) |-> leps[i].pt],
     lep_phi |-> [i \in 1..Len(leps) |-> leps[i].phi],
     met_et |-> met, met_phi |-> 0,
     jet_n |-> Len(jets),
     jet_pt |-> [i \in 1..Len(jets) |-> jets[i].pt],
     jet_eta |-> [i \in 1..Len(jets) |-> jets[i].eta],
     jet_phi |-> [i \in 1..Len(jets) |-> jets[i].phi],
     jet_E |-> [i \in 1..Len(jets) |-> jets[i].E]]

Events == {Event(l, m, j) : l \in Leptons, m \in MetValues, j \in Jets}

RECURSIVE SeqsUpTo(_, _)
SeqsUpTo(S, n) ==
    IF n = 0 THEN {<<>>}
    ELSE LET shorter == SeqsUpTo(S, n - 1)
         IN  shorter \cup {Append(s, e) : s \in {t \in shorter : Len(t) = n - 1}, e \in S}

Trees == SeqsUpTo(Events, MaxEvents)
Caps == -1..(MaxEvents + 1)

\* ------------------------------------------------------- analyse_events
\* The lepton loop: the sums of lep_pt[ii]*cos(lep_phi[ii]), an integer in
\* MeV, and of lep_pt[ii]*sin(lep_phi[ii]), a multiple of math.sin(math.pi)
\* MeV, over ii in range(n).
RECURSIVE LepSumX(_, _)
LepSumX(event, n) ==
    IF n = 0 THEN 0
    ELSE LepSumX(event, n - 1) + event.lep_pt[n] * Cos(event.lep_phi[n])

RECURSIVE LepSumY(_, _)
LepSumY(event, n) ==
    IF n = 0 THEN 0
    ELSE LepSumY(event, n - 1) + event.lep_pt[n] * Sin(event.lep_phi[n])

met_x(event) == LepSumX(event, event.lep_n) + event.met_et * Cos(event.met_phi)
met_y(event) == LepSumY(event, event.lep_n) + event.met_et * Sin(event.met_phi)

\* x * GeV for a whole multiple of 1000 MeV.
ToGeV(x) == x \div MeVPerGeV

\* The whole part of (t * math.sin(math.pi) * GeV)^2 for |t| <= 10^7, a
\* number below 10^-23.  In the doubles t^2 * 1.5e-32 is also below half an
\* ulp of every x*x with |x| >= 1000, so that x*x + y*y is x*x there.
TinySq(t) == 0 * t * t

\* The whole part of the square of
\* met_et_GeV = math.sqrt(met_x*met_x + met_y*met_y) * GeV.  With met_x a
\* nonzero multiple of 1000 the double is exactly |met_x|/1000; with met_x = 0
\* it is |met_y| * GeV, at most 10^-12.
met_et_GeV_sq(event) ==
    ToGeV(met_x(event)) * ToGeV(met_x(event)) + TinySq(met_y(event))

\* The cut with <= for <.
BelowThreshold_OrEqual(event) == met_et_GeV_sq(event) <= met_thresh * met_thresh

\* met_et_GeV < met_thresh
BelowThreshold(event) == met_et_GeV_sq(event) < met_thresh * met_thresh

Abs(x) == IF x < 0 THEN -x ELSE x

\* TLorentzVector.SetPtEtaPhiE(pt, eta, phi, e): the vector keeps
\* (|pt|*cos(phi), |pt|*sin(phi), |pt|*sinh(eta), e).  fY is a multiple of
\* math.sin(math.pi); fZ is kept as its two factors.
SetPtEtaPhiE(pt, eta, phi, e) ==
    [fX |-> Abs(pt) * Cos(phi), fY |-> Abs(pt) * Sin(phi),
     fZ |-> [pt |-> Abs(pt), eta |-> eta], fE |-> e]

\* TLorentzVector.Pt() = sqrt(fX*fX + fY*fY), in MeV: exactly |fX|, as for
\* the effective MET.
Pt(v) == Abs(v.fX)

\* TLorentzVector.Eta(), in hundredths.  With no momentum it is 0.  Otherwise
\* it is -0.5*log((1-c)/(1+c)) with c = fZ/|p|: exactly 0 for eta = 0, and for
\* another eta a double within 10^-12 of it, on either side.  Such a double
\* is in the bin of eta when eta is not on a bin edge of the eta histograms
\* (edges every tenth); an eta on an edge has no value here.
Eta(v) ==
    CASE v.fZ.pt = 0 -> 0
      [] v.fZ.pt # 0 /\ v.fZ.eta = 0 -> 0
      [] v.fZ.pt # 0 /\ v.fZ.eta % (EtaPerUnit \div 10) # 0 -> v.fZ.eta

\* jet.Pt()*GeV and jet.Eta() of the jet i of the event.
Jet(event, i) ==
    SetPtEtaPhiE(event.jet_pt[i], event.jet_eta[i], event.jet_phi[i], event.jet_E[i])
JetPtGeV(event, i) == ToGeV(Pt(Jet(event, i)))
JetEta(event, i) == Eta(Jet(event, i))

\* f"{met_thresh}GeVMET"
ThreshLabel == ToString(met_thresh) \o "GeVMET"

\* A fill that skips a histogram the dictionary does not have.
FillValue_SkipMissing(st, key, x, per) ==
    IF st.err # "none" THEN st
    ELSE IF key \notin DOMAIN st.h THEN st
    ELSE [st EXCEPT !.h[key] = FillBin(@, FindBin(@, x, per))]

\* hist_list[key].Fill(x/per): a KeyError when the dictionary has no such
\* key, after which nothing more of the body runs.
FillValue(st, key, x, per) ==
    IF st.err # "none" THEN st
    ELSE IF key \notin DOMAIN st.h THEN [st EXCEPT !.err = "KeyError"]
    ELSE [st EXCEPT !.h[key] = FillBin(@, FindBin(@, x, per))]

FillValueSq(st, key, x2) ==
    IF st.err # "none" THEN st
    ELSE IF key \notin DOMAIN st.h THEN [st EXCEPT !.err = "KeyError"]
    ELSE [st EXCEPT !.h[key] = FillBin(@, FindBinSq(@, x2))]

FillName(st, key, label) ==
    IF st.err # "none" THEN st
    ELSE IF key \notin DOMAIN st.h THEN [st EXCEPT !.err = "KeyError"]
    ELSE [st EXCEPT !.h[key] = FillLabel(@, label)]

\* The four jet-kinematic fills of an event with at least two jets.
FillJets(st, event) ==
    LET a == FillValue(st, "jet0_pt", JetPtGeV(event, 1), 1)
        b == FillValue(a, "jet1_pt", JetPtGeV(event, 2), 1)
        c == FillValue(b, "jet0_eta", JetEta(event, 1), EtaPerUnit)
    IN  FillValue(c, "jet1_eta", JetEta(event, 2), EtaPerUnit)

\* AfterCut with passed_cnt += 1 inside the block of the two-jet test.
AfterCut_PassedInsideIf(st, event) ==
    LET a == FillName(st, "cutflow", ThreshLabel)
        b == FillValue(a, "jet_n", event.jet_n, 1)
        c == IF event.jet_n >= 2 THEN FillJets(b, event) ELSE b
    IN  IF c.err # "none" \/ event.jet_n < 2 THEN c ELSE [c EXCEPT !.passed = @ + 1]

\* What passes the MET cut: the threshold bucket, jet_n, the jet kinematics
\* of the two leading jets, and the passed count.
AfterCut(st, event) ==
    LET a == FillName(st, "cutflow", ThreshLabel)
        b == FillValue(a, "jet_n", event.jet_n, 1)
        c == IF event.jet_n >= 2 THEN FillJets(b, event) ELSE b
    IN  IF c.err # "none" THEN c ELSE [c EXCEPT !.passed = @ + 1]

\* Body without the "continue" of the MET cut.
Body_NoCut(h, p, event) ==
    LET s0 == [h |-> h, passed |-> p, err |-> "none"]
        s1 == FillName(s0, "cutflow", "total")
        s2 == FillValueSq(s1, "met_et", met_et_GeV_sq(event))
    IN  IF s2.err # "none" THEN s2 ELSE AfterCut(s2, event)

\* The body of the event loop after evt_cnt += 1, on the dictionary h and
\* the passed count p: the new dictionary, passed count and error.
Body(h, p, event) ==
    LET s0 == [h |-> h, passed |-> p, err |-> "none"]
        s1 == FillName(s0, "cutflow", "total")
        s2 == FillValueSq(s1, "met_et", met_et_GeV_sq(event))
    IN  IF s2.err # "none" THEN s2
        ELSE IF BelowThreshold(event) THEN s2
        ELSE AfterCut(s2, event)

\* if evt_cnt >= max_events: break
CapReached_OffByOne(cnt, cap) == cnt > cap
CapReached(cnt, cap) == cnt >= cap

\* Entry of analyse_events: every histogram is reset, the counters start at 0.
Call ==
    /\ pc = "call"
    /\ hist_list' = [k \in DOMAIN hist_list |-> Reset(hist_list[k])]
    /\ passed_cnt' = 0
    /\ evt_cnt' = 0
    /\ pc' = "loop"
    /\ UNCHANGED <<tree, max_events, ret>>
    /\ UNCHANGED outerVars

\* for event in tree: the tree has no further entry.
LoopExhausted ==
    /\ pc = "loop"
    /\ evt_cnt >= Len(tree)
    /\ pc' = "return"
    /\ UNCHANGED <<tree, hist_list, max_events, evt_cnt, passed_cnt, ret>>
    /\ UNCHANGED outerVars

\* The cap is reached before the next event is processed: break.
LoopBreak ==
    /\ pc = "loop"
    /\ evt_cnt < Len(tree)
    /\ CapReached(evt_cnt, max_events)
    /\ pc' = "return"
    /\ UNCHANGED <<tree, hist_list, max_events, evt_cnt, passed_cnt, ret>>
    /\ UNCHANGED outerVars

\* One iteration of the loop on the next event of the tree.
LoopBody ==
    /\ pc = "loop"
    /\ evt_cnt < Len(tree)
    /\ ~CapReached(evt_cnt, max_events)
    /\ LET r == Body(hist_list, passed_cnt, tree[evt_cnt + 1])
       IN  /\ evt_cnt' = evt_cnt + 1
           /\ hist_list' = r.h
           /\ passed_cnt' = r.passed
           /\ pc' = IF r.err = "none" THEN "loop" ELSE "error"
    /\ UNCHANGED <<tree, max_events, ret>>
    /\ UNCHANGED outerVars

\* return passed_cnt
Return ==
    /\ pc = "return"
    /\ ret' = passed_cnt
    /\ pc' = "done"
    /\ UNCHANGED <<tree, hist_list, max_events, evt_cnt, passed_cnt>>
    /\ UNCHANGED outerVars

\* analyse_events(t, h, cap) run to its end as one function: the dictionary
\* it leaves, the value it returns, and the error that ended it if one did.
RECURSIVE EventLoop(_, _, _, _, _)
EventLoop(t, h, cap, cnt, passed) ==
    IF cnt >= Len(t) \/ CapReached(cnt, cap)
    THEN [h |-> h, passed |-> passed, err |-> "none"]
    ELSE LET r == Body(h, passed, t[cnt + 1])
         IN  IF r.err # "none" THEN r
             ELSE EventLoop(t, r.h, cap, cnt + 1, r.passed)

analyse_events(t, h, cap) ==
    EventLoop(t, [k \in DOMAIN h |-> Reset(h[k])], cap, 0, 0)

NoNotebook ==
    /\ cell = "none"
    /\ raised = NotRun
    /\ signal_tree = <<>> /\ bg_tree = <<>> /\ XSection = Undef
    /\ signal_hist_list = Undef /\ bg_hist_list = Undef
    /\ passed_signal_events = Unassigned /\ passed_bg_events = Unassigned
    /\ total_evts = Undef /\ max_evts = Undef /\ scale_factor = Unassigned
    /\ xsection = Unassigned /\ signal = Unassigned /\ background = Unassigned
    /\ reduction = Unassigned /\ out = Undef
    /\ prev = <<>>

\* One call analyse_events(tree, hist_list) or analyse_events(tree, hist_list,
\* cap) on the histograms of get_histograms().
Init ==
    /\ tree \in Trees
    /\ hist_list = get_histograms
    /\ max_events \in Caps
    /\ pc = "call"
    /\ evt_cnt = 0 /\ passed_cnt = 0 /\ ret = Undef
    /\ NoNotebook

Next == Call \/ LoopExhausted \/ LoopBreak \/ LoopBody \/ Return

Spec == Init /\ [][Next]_vars

\* ------------------------------------------- an incomplete histogram set
Filled == {"cutflow", "met_et", "jet_n", "jet0_pt", "jet1_pt", "jet0_eta", "jet1_eta"}

\* One call of analyse_events on a dictionary that lacks one of the
\* histograms the function fills.
InitMissing ==
    /\ tree \in Trees
    /\ \E missing \in Filled :
         hist_list = [k \in (DOMAIN get_histograms) \ {missing} |-> get_histograms[k]]
    /\ max_events \in Caps
    /\ pc = "call"
    /\ evt_cnt = 0 /\ passed_cnt = 0 /\ ret = Undef
    /\ NoNotebook

SpecMissing == InitMissing /\ [][Next]_vars

\* ------------------------------------ repeated calls on one histogram set
RepeatEvents ==
    {Event(<<>>, 150000, <<LeadingJet, SecondJet>>), Event(<<>>, 300000, <<LeadingJet, SecondJet>>)}
RepeatTrees == SeqsUpTo(RepeatEvents, MaxEvents)

InitRepeat ==
    /\ tree \in RepeatTrees
    /\ hist_list = get_histograms
    /\ max_events \in Caps
    /\ pc = "call"
    /\ evt_cnt = 0 /\ passed_cnt = 0 /\ ret = Undef
    /\ NoNotebook

\* After a call has returned, the same dictionary is handed to another call,
\* on any tree and with any cap.
CallAgain ==
    /\ pc = "done"
    /\ prev' = <<[tree |-> tree, max_events |-> max_events,
                  hist_list |-> hist_list, ret |-> ret]>>
    /\ tree' \in RepeatTrees
    /\ max_events' \in Caps
    /\ pc' = "call"
    /\ ret' = Undef
    /\ UNCHANGED <<hist_list, evt_cnt, passed_cnt>>
    /\ UNCHANGED nbVars

NextRepeat == Call \/ LoopExhausted \/ LoopBreak \/ LoopBody \/ Return \/ CallAgain

SpecRepeat == InitRepeat /\ [][NextRepeat]_vars

\* ------------------------------------------------------ claims on a pass
JetKinematic == {"jet0_pt", "jet1_pt", "jet0_eta", "jet1_eta"}
NeverFilled == {"jet_dphi", "jet_deta", "dijet_m"}

Min(a, b) == IF a < b THEN a ELSE b

\* The step processes the event tree[evt_cnt + 1].
Processes == pc = "loop" /\ evt_cnt' = evt_cnt + 1

\* The events among the first n of the tree whose effective MET reaches the
\* threshold.
AtLeastThreshold(n) ==
    {i \in 1..n : met_et_GeV_sq(tree[i]) >= met_thresh * met_thresh}

\* C1: processing an event whose effective MET is below the threshold leaves
\* the passed count and the four jet-kinematic histograms as they were,
\* whatever the event's jet count.
C1_BelowThresholdNotPassed ==
    [][(Processes /\ met_et_GeV_sq(tree[evt_cnt + 1]) < met_thresh * met_thresh)
         => /\ passed_cnt' = passed_cnt
            /\ \A k \in JetKinematic : hist_list'[k] = hist_list[k]]_vars

C1_Witness ==
    /\ pc = "done"
    /\ \E i \in 1..evt_cnt :
         /\ met_et_GeV_sq(tree[i]) < met_thresh * met_thresh
         /\ tree[i].jet_n >= 2
    /\ ret < evt_cnt

\* C2: processing an event whose effective MET is at least the threshold
\* (equal included) and that has fewer than two jets adds one count to the
\* cutflow "total" bucket, one to the threshold bucket and one entry to met_et,
\* and leaves the four jet-kinematic histograms as they were.
C2_FewJetsAboveThreshold ==
    [][(/\ Processes
        /\ met_et_GeV_sq(tree[evt_cnt + 1]) >= met_thresh * met_thresh
        /\ tree[evt_cnt + 1].jet_n < 2)
         => /\ LabelContent(hist_list'["cutflow"], "total")
                 = LabelContent(hist_list["cutflow"], "total") + 1
            /\ LabelContent(hist_list'["cutflow"], "200GeVMET")
                 = LabelContent(hist_list["cutflow"], "200GeVMET") + 1
            /\ Entries(hist_list'["cutflow"]) = Entries(hist_list["cutflow"]) + 2
            /\ Entries(hist_list'["met_et"]) = Entries(hist_list["met_et"]) + 1
            /\ \A k \in JetKinematic : hist_list'[k] = hist_list[k]]_vars

C2_Witness ==
    /\ pc = "done"
    /\ \E i \in 1..evt_cnt :
         /\ met_et_GeV_sq(tree[i]) = met_thresh * met_thresh
         /\ tree[i].jet_n < 2
    /\ \A k \in JetKinematic : Entries(hist_list[k]) = 0
    /\ LabelContent(hist_list["cutflow"], "200GeVMET") >= 1

\* C3: a call that leaves max_events at its default processes the whole tree:
\* at return the "total" bucket counts every event of the tree and the
\* returned count is the number of events of the tree reaching the threshold.
C3_DefaultProcessesAll ==
    (pc = "done" /\ max_events = DefaultMaxEvents)
      => /\ LabelContent(hist_list["cutflow"], "total") = Len(tree)
         /\ ret = Cardinality(AtLeastThreshold(Len(tree)))

\* What C4 says of a returned pass with a cap >= 0.
C4_Final ==
    LET m == Min(max_events, Len(tree))
    IN  max_events >= 0 =>
          /\ evt_cnt = m
          /\ LabelContent(hist_list["cutflow"], "total") = m
          /\ Entries(hist_list["met_et"]) = m
          /\ LET bin == [i \in 1..m |->
                          FindBinSq(hist_list["met_et"], met_et_GeV_sq(tree[i]))]
             IN  /\ DOMAIN hist_list["met_et"].bins = {bin[i] : i \in 1..m}
                 /\ \A i \in 1..m :
                      BinContent(hist_list["met_et"], bin[i])
                        = Cardinality({j \in 1..m : bin[j] = bin[i]})
          /\ (max_events = 0 =>
                /\ ret = 0
                /\ \A k \in DOMAIN hist_list :
                     Entries(hist_list[k]) = 0 /\ hist_list[k].bins = NoBins)

\* The number of steps a pass can still take, at most.
C4_Measure ==
    CASE pc = "call" -> Len(tree) + 3
      [] pc = "loop" -> (Len(tree) - evt_cnt) + 2
      [] pc = "return" -> 1
      [] OTHER -> 0

\* C4: every pass ends, without an error, in a return (no state is an error,
\* every state before the return is at a position that has a next step, and
\* every step uses up the finite measure); with a cap >= 0 it has then processed exactly the first
\* min(cap, N) events of the tree, and with cap 0 it returns 0 and leaves
\* every histogram empty.
C4_TerminatesAtCap ==
    /\ [](/\ pc # "error"
          /\ pc \in {"call", "loop", "return", "done"}
          /\ (pc = "done" => C4_Final))
    /\ [][C4_Measure' < C4_Measure /\ C4_Measure' >= 0]_vars

C4_Witness ==
    /\ pc = "done"
    /\ Len(tree) >= 1
    /\ max_events > Len(tree)
    /\ LabelContent(hist_list["cutflow"], "total") = Len(tree)

\* C10: after every completed iteration and at return the counters form the
\* chain jet0_pt = jet1_pt = jet0_eta = jet1_eta <= threshold bucket = jet_n
\* = passed_cnt <= "total" bucket = met_et = evt_cnt (<= max_events when that
\* is >= 0); passed_cnt is the number of processed events reaching the
\* threshold, the returned value is passed_cnt, and jet_dphi, jet_deta and
\* dijet_m stay empty.
C10_CounterChain ==
    pc \in {"loop", "return", "done"} =>
      /\ \A k \in JetKinematic :
           Entries(hist_list[k]) = Entries(hist_list["jet0_pt"])
      /\ Entries(hist_list["jet0_pt"]) <= LabelContent(hist_list["cutflow"], "200GeVMET")
      /\ LabelContent(hist_list["cutflow"], "200GeVMET") = Entries(hist_list["jet_n"])
      /\ Entries(hist_list["jet_n"]) = passed_cnt
      /\ passed_cnt <= LabelContent(hist_list["cutflow"], "total")
      /\ LabelContent(hist_list["cutflow"], "total") = Entries(hist_list["met_et"])
      /\ Entries(hist_list["met_et"]) = evt_cnt
      /\ (max_events >= 0 => evt_cnt <= max_events)
      /\ passed_cnt = Cardinality(AtLeastThreshold(evt_cnt))
      /\ (pc = "done" => ret = passed_cnt)
      /\ \A k \in NeverFilled : Entries(hist_list[k]) = 0 /\ hist_list[k].bins = NoBins

C10_Witness ==
    /\ pc = "done"
    /\ evt_cnt = 2
    /\ ret = 1
    /\ Entries(hist_list["jet0_pt"]) = 0
    /\ LabelContent(hist_list["cutflow"], "total") = 2

\* --------------------------------------- claims on an incomplete set
\* The histograms the body fills for an event.
Required(event) ==
    {"cutflow", "met_et"}
      \cup (IF met_et_GeV_sq(event) >= met_thresh * met_thresh
            THEN {"jet_n"} \cup (IF event.jet_n >= 2 THEN JetKinematic ELSE {})
            ELSE {})

\* C8 as stated: a pass on a dictionary that lacks a filled histogram never
\* completes normally, whatever the tree and the cap.
C8_MissingAlwaysFails == pc # "done"

\* C8 as amended: the dictionary never gains or loses a key; the step that
\* processes an event ends in an error exactly when the event reaches a fill of
\* a histogram the dictionary lacks (no such fill is skipped); after the error
\* the pass returns nothing; and a pass returns normally only when none of the
\* events it processed reached such a fill.
C8_MissingFillRaises ==
    /\ [][/\ DOMAIN hist_list' = DOMAIN hist_list
          /\ (Processes =>
                (pc' = "error" <=> ~(Required(tree[evt_cnt + 1]) \subseteq DOMAIN hist_list)))]_vars
    /\ [](/\ (pc = "error" => ret = Undef)
          /\ (pc = "done" =>
                \A i \in 1..evt_cnt : Required(tree[i]) \subseteq DOMAIN hist_list))

C8_Witness ==
    /\ pc = "error"
    /\ "jet1_eta" \notin DOMAIN hist_list
    /\ evt_cnt = 2
    /\ passed_cnt = 0
    /\ Entries(hist_list["jet0_eta"]) = 1

\* ------------------------------------------- claims on repeated calls
Contents(h) == [k \in DOMAIN h |-> [entries |-> h[k].entries, bins |-> h[k].bins]]

\* C5: every call clears all histograms before its first event, so what a call
\* leaves and returns is what it leaves and returns on freshly made
\* histograms, whatever earlier calls left in them; in particular a call with
\* the tree and cap of the previous call leaves the same histogram contents
\* and returns the same count.
C5_ResetThenAccumulate ==
    /\ (pc = "loop" /\ evt_cnt = 0 =>
          \A k \in DOMAIN hist_list : Entries(hist_list[k]) = 0 /\ hist_list[k].bins = NoBins)
    /\ (pc = "done" =>
          /\ Contents(hist_list)
               = Contents(analyse_events(tree, get_histograms, max_events).h)
          /\ ret = analyse_events(tree, get_histograms, max_events).passed
          /\ (prev # <<>> /\ prev[1].tree = tree /\ prev[1].max_events = max_events
                => Contents(hist_list) = Contents(prev[1].hist_list) /\ ret = prev[1].ret))

C5_Witness ==
    /\ pc = "done"
    /\ prev # <<>>
    /\ prev[1].tree = tree /\ prev[1].max_events = max_events
    /\ ret >= 1
    /\ Entries(hist_list["jet0_pt"]) = ret

\* ------------------------------------------------------------- fractions
\* A Python float that is a ratio of integers, as the fraction n/d in lowest
\* terms with d > 0.
RECURSIVE GCD(_, _)
GCD(a, b) == IF b = 0 THEN a ELSE GCD(b, a % b)

Frac(n, d) ==
    LET g == GCD(Abs(n), d)
    IN  [n |-> n \div g, d |-> d \div g]

\* a * k, a / k and a * b, cancelling common factors before multiplying.
FracTimes(a, k) ==
    LET g == GCD(Abs(k), a.d)
    IN  Frac(a.n * (k \div g), a.d \div g)
FracOver(a, k) ==
    LET g == GCD(Abs(a.n), k)
    IN  IF a.n = 0 THEN Frac(0, 1) ELSE Frac(a.n \div g, a.d * (k \div g))
FracMul(a, b) == FracOver(FracTimes(a, b.n), b.d)
FracGreater(a, num, den) == a.n * den > num * a.d

\* ------------------------------------------------------- notebook cells
NotebookTrees == RepeatTrees
XSections == {500, 2000}
\* The value the cell's line "max_evts = total_evts" is edited to.
MaxEvtsChoices == 0..(MaxEvents + 1)

InitNotebook ==
    /\ cell = "signal"
    /\ raised = NotRun
    /\ signal_tree \in NotebookTrees
    /\ bg_tree \in NotebookTrees
    /\ XSection \in XSections
    /\ signal_hist_list = get_histograms
    /\ bg_hist_list = get_histograms
    /\ passed_signal_events = Unassigned /\ passed_bg_events = Unassigned
    /\ total_evts = Undef /\ max_evts = Undef /\ scale_factor = Unassigned
    /\ xsection = Unassigned /\ signal = Unassigned /\ background = Unassigned
    /\ reduction = Unassigned /\ out = Undef
    /\ prev = <<>>
    /\ tree = <<>> /\ hist_list = get_histograms /\ max_events = DefaultMaxEvents
    /\ pc = "idle" /\ evt_cnt = 0 /\ passed_cnt = 0 /\ ret = Undef

\* The cell ANALYSE MC SIGNAL.  total_evts/max_evts raises ZeroDivisionError
\* when max_evts is 0, and the rest of the cell does not run.
SignalCell ==
    /\ cell = "signal"
    /\ cell' = "background"
    /\ total_evts' = Len(signal_tree)
    /\ xsection' = Frac(XSection, fb_inverse)
    /\ \E m \in MaxEvtsChoices :
         /\ max_evts' = m
         /\ IF m = 0
            THEN /\ raised' = [raised EXCEPT !.signal = "ZeroDivisionError"]
                 /\ UNCHANGED <<scale_factor, signal_hist_list,
                                passed_signal_events, signal>>
            ELSE LET r == analyse_events(signal_tree, signal_hist_list, m)
                     sf == Frac(Len(signal_tree), m)
                 IN  /\ raised' = [raised EXCEPT !.signal = "none"]
                     /\ scale_factor' = sf
                     /\ signal_hist_list' = r.h
                     /\ passed_signal_events' = FracTimes(sf, r.passed)
                     /\ signal' = FracMul(FracTimes(sf, r.passed), Frac(XSection, fb_inverse))
    /\ UNCHANGED <<signal_tree, bg_tree, XSection, bg_hist_list, passed_bg_events,
                   background, reduction, out, prev>>
    /\ UNCHANGED passVars

\* The cell ANALYSE BACKGROUND DATA.
BackgroundCell ==
    /\ cell = "background"
    /\ cell' = "final"
    /\ total_evts' = Len(bg_tree)
    /\ \E m \in MaxEvtsChoices :
         /\ max_evts' = m
         /\ IF m = 0
            THEN /\ raised' = [raised EXCEPT !.background = "ZeroDivisionError"]
                 /\ UNCHANGED <<scale_factor, bg_hist_list, passed_bg_events, background>>
            ELSE LET r == analyse_events(bg_tree, bg_hist_list, m)
                     sf == Frac(Len(bg_tree), m)
                 IN  /\ raised' = [raised EXCEPT !.background = "none"]
                     /\ scale_factor' = sf
                     /\ bg_hist_list' = r.h
                     /\ passed_bg_events' = FracTimes(sf, r.passed)
                     /\ background' = FracTimes(FracTimes(sf, r.passed), background_scale)
    /\ UNCHANGED <<signal_tree, bg_tree, XSection, signal_hist_list,
                   passed_signal_events, xsection, signal, reduction, out, prev>>
    /\ UNCHANGED passVars

\* A significance that divides the way numpy does: no exception, the value is
\* inf or nan when the background is 0.
Significance_Silent(s, b) ==
    IF FracTimes(b, lumi_factor).n < 0
    THEN [error |-> "none", value |-> "nan"]
    ELSE IF FracTimes(b, lumi_factor).n = 0
    THEN [error |-> "none", value |-> IF s.n = 0 THEN "nan" ELSE "inf"]
    ELSE [error |-> "none",
          value |-> [over |-> FracTimes(s, lumi_factor),
                     sqrt |-> FracTimes(b, lumi_factor)]]

\* signal*lumi_factor/math.sqrt(background*lumi_factor): math.sqrt raises
\* ValueError on a negative number, the float division raises
\* ZeroDivisionError when the square root is 0, and otherwise the value is
\* over/sqrt(sqrt), kept as the two fractions.
Significance(s, b) ==
    IF FracTimes(b, lumi_factor).n < 0
    THEN [error |-> "ValueError", value |-> "none"]
    ELSE IF FracTimes(b, lumi_factor).n = 0
    THEN [error |-> "ZeroDivisionError", value |-> "none"]
    ELSE [error |-> "none",
          value |-> [over |-> FracTimes(s, lumi_factor),
                     sqrt |-> FracTimes(b, lumi_factor)]]

\* The verdict with >= for >.
Verdict_Strict(r) ==
    IF r.n * afford_den >= afford_num * r.d THEN "not affordable" ELSE "affordable"

\* if reduction > 0.14: "Sorry, we can't afford this trigger." else: "We can
\* afford this trigger ..."
Verdict(r) ==
    IF FracGreater(r, afford_num, afford_den) THEN "not affordable" ELSE "affordable"

\* The cell Final Results.  A global no earlier cell assigned raises NameError.
FinalCell ==
    /\ cell = "final"
    /\ cell' = "end"
    /\ IF ~Assigned(background)
       THEN /\ raised' = [raised EXCEPT !.final = "NameError"]
            /\ out' = [significance |-> "none", verdict |-> "none"]
            /\ UNCHANGED reduction
       ELSE /\ reduction' = FracOver(background, reference_events)
            /\ IF ~Assigned(signal)
               THEN /\ raised' = [raised EXCEPT !.final = "NameError"]
                    /\ out' = [significance |-> "none", verdict |-> "none"]
               ELSE LET sg == Significance(signal, background)
                    IN  /\ raised' = [raised EXCEPT !.final = sg.error]
                        /\ out' = [significance |-> sg.value,
                                   verdict |-> IF sg.error = "none"
                                               THEN Verdict(FracOver(background, reference_events))
                                               ELSE "none"]
    /\ UNCHANGED <<signal_tree, bg_tree, XSection, signal_hist_list, bg_hist_list,
                   passed_signal_events, passed_bg_events, total_evts, max_evts,
                   scale_factor, xsection, signal, background, prev>>
    /\ UNCHANGED passVars

NextNotebook == SignalCell \/ BackgroundCell \/ FinalCell

SpecNotebook == InitNotebook /\ [][NextNotebook]_vars

\* The final cell on the yields of passes over large trees: the background
\* cell has run on a tree of t events with max_evts = m of which p passed,
\* the signal cell on a tree of which q events passed at scale factor 1.  The
\* trees and histograms of these passes are not represented.
FinalPassed == 0..2
FinalRuns ==
    {<<t, m>> : t \in 7180..7195, m \in {18, 36}}
      \cup {<<179676, 450>>, <<359351, 900>>, <<359400, 900>>}

InitFinal ==
    /\ cell = "final"
    /\ raised = [signal |-> "none", background |-> "none", final |-> "notrun"]
    /\ signal_tree = <<>> /\ bg_tree = <<>>
    /\ XSection = 2000
    /\ signal_hist_list = Undef /\ bg_hist_list = Undef
    /\ \E p \in FinalPassed, run \in FinalRuns, q \in FinalPassed :
         /\ total_evts = run[1]
         /\ max_evts = run[2]
         /\ scale_factor = Frac(run[1], run[2])
         /\ passed_bg_events = FracTimes(Frac(run[1], run[2]), p)
         /\ background = FracTimes(FracTimes(Frac(run[1], run[2]), p), background_scale)
         /\ passed_signal_events = Frac(q, 1)
         /\ signal = FracMul(Frac(q, 1), Frac(2000, fb_inverse))
    /\ xsection = Frac(2000, fb_inverse)
    /\ reduction = Unassigned /\ out = Undef
    /\ prev = <<>>
    /\ tree = <<>> /\ hist_list = get_histograms /\ max_events = DefaultMaxEvents
    /\ pc = "idle" /\ evt_cnt = 0 /\ passed_cnt = 0 /\ ret = Undef

NextFinal == FinalCell

SpecFinal == InitFinal /\ [][NextFinal]_vars

\* ------------------------------------------------- claims on the cells
\* C6: in both yield cells and for every choice of max_evts, the scale factor
\* times the number of events the pass processed (the cutflow "total"
\* bucket) is the tree's total event count.
C6_ScaleByProcessed ==
    /\ (cell = "background" /\ raised.signal = "none" =>
          scale_factor.n * LabelContent(signal_hist_list["cutflow"], "total")
            = total_evts * scale_factor.d)
    /\ (cell = "final" /\ raised.background = "none" =>
          scale_factor.n * LabelContent(bg_hist_list["cutflow"], "total")
            = total_evts * scale_factor.d)

\* C7: when the final cell runs with a background yield b such that
\* b * lumi_factor <= 0, it ends in an exception and produces no significance
\* value (and no verdict): ZeroDivisionError or ValueError from the
\* significance itself when the signal yield exists, NameError before it when
\* the signal cell assigned none.
C7_ZeroBackgroundRaises ==
    (cell = "end" /\ Assigned(background) /\ background.n * lumi_factor <= 0)
      => /\ raised.final
              = (IF ~Assigned(signal) THEN "NameError"
                 ELSE IF background.n = 0 THEN "ZeroDivisionError" ELSE "ValueError")
         /\ out.significance = "none"
         /\ out.verdict = "none"

C7_Witness ==
    /\ cell = "end"
    /\ raised.background = "none"
    /\ Len(bg_tree) >= 1
    /\ LabelContent(bg_hist_list["cutflow"], "total") >= 1
    /\ Assigned(background) /\ background.n = 0
    /\ Assigned(signal) /\ signal.n > 0
    /\ raised.final = "ZeroDivisionError"

\* C9 as stated: reduction is background/51336, the verdict at background 7187
\* is "affordable", and at every larger background it is "not affordable".
C9_LargerNotAffordable ==
    (cell = "end" /\ raised.final = "none") =>
       /\ FracTimes(reduction, reference_events) = background
       /\ (background = [n |-> 7187, d |-> 1] => out.verdict = "affordable")
       /\ (background.n > 7187 * background.d => out.verdict = "not affordable")

\* C9 as amended: reduction is background/51336, the verdict is "affordable"
\* exactly when reduction <= 14/100, that is at every background up to
\* 7187.04 = 718704/100 (7187 included), and "not affordable" above it, so at
\* every whole-number background from 7188 on.
C9_AffordableUpTo ==
    (cell = "end" /\ raised.final = "none") =>
       /\ FracTimes(reduction, reference_events) = background
       /\ (out.verdict = "affordable" <=> background.n * 100 <= 718704 * background.d)
       /\ out.verdict \in {"affordable", "not affordable"}
       /\ (background = [n |-> 7187, d |-> 1] => out.verdict = "affordable")
       /\ (background.d = 1 /\ background.n >= 7188 => out.verdict = "not affordable")

C9_Witness ==
    /\ cell = "end"
    /\ raised.final = "none"
    /\ background = [n |-> 359351, d |-> 50]
    /\ reduction = [n |-> 359351, d |-> 2566800]
    /\ out.verdict = "affordable"
====
